---- MODULE Spec2Model ----
(***************************************************************************)
(* A model of rubin_sim/maf/plots/skyproj_plotters.py: the plotters that   *)
(* draw metric values on skyproj projection axes, the class-level registry *)
(* of axes per (figure, subplot), the per-call plot dictionary and the     *)
(* decoration pipeline.                                                    *)
(*                                                                         *)
(* Python objects are identified by their id: figures and axes are         *)
(* numbered in allocation order, 0 stands for None where a field holds an  *)
(* object id.  Python values of other types are tagged records.  A method  *)
(* is an operator on a machine record m (the plotter `self`, the class     *)
(* attributes, the heap, the primitives invoked so far and the pending     *)
(* exception); a raised exception makes every later statement a no-op.     *)
(***************************************************************************)
EXTENDS Integers, Sequences, FiniteSets, TLC

VARIABLES
    plotters,            \* plotter id -> the plotter object (its attributes)
    skyproj_instances,   \* SkyprojPlotter.skyproj_instances (WeakKeyDictionary)
    default_decorations, \* SkyprojPlotter.default_decorations (one shared list)
    figures,             \* heap: every figure allocated so far, by id
    live,                \* ids of the figures not yet garbage collected
    callerRefs,          \* ids of the figures the calling program references
    axes,                \* heap: every projection axis constructed so far
    overlays,            \* axis id -> what has been drawn on it, in order
    calls,               \* one summary per __call__, in order
    trace,               \* the primitives invoked by the latest __call__
    collected,           \* TRUE when the garbage collector was the last to run
    circle               \* the latest compute_circle_points call and its result

vars == <<plotters, skyproj_instances, default_decorations, figures, live,
          callerRefs, axes, overlays, calls, trace, collected, circle>>

---------------------------------------------------------------------------
(* Bounds of the model. *)

MaxPlotters == 2
MaxFigures == 2
MaxCalls == 2
MaxCollectCalls == 1
MaxDecorCalls == 1
MaxRepeatCalls == 2
MaxPoints == 5
MaxVisits == 2
MaxVisitCalls == 2

---------------------------------------------------------------------------
(* Python values. *)

None == [tag |-> "None"]
Str(s) == [tag |-> "str", s |-> s]
PyInt(n) == [tag |-> "int", n |-> n]
Tup(t) == [tag |-> "tuple", items |-> t]
List(l) == [tag |-> "list", items |-> l]
Cls(c) == [tag |-> "class", name |-> c]
Obj(o) == [tag |-> "object", name |-> o]
Func(f) == [tag |-> "function", name |-> f]
Dict(d) == [tag |-> "dict", d |-> d]
Bool(b) == [tag |-> "bool", b |-> b]
\* a float, kept as the text of its literal (it is only passed on)
PyFloat(lit) == [tag |-> "float", lit |-> lit]
\* a reference to the list object held by the class attribute of that name
ListRef(r) == [tag |-> "listref", ref |-> r]

NoFigure == 0
NoAxis == 0
EmptyDict == <<>>

\* dict.update
Update(d, e) ==
    [k \in (DOMAIN d) \cup (DOMAIN e) |-> IF k \in DOMAIN e THEN e[k] ELSE d[k]]

\* The projection classes and their direct base among them (skyproj's
\* survey classes derive from its projection classes).
SkyprojClasses == {"MollweideSkyproj", "McBrydeSkyproj", "DESMcBrydeSkyproj"}
Bases(c) == IF c = "DESMcBrydeSkyproj" THEN {"McBrydeSkyproj"} ELSE {}
Mro(c) == {c} \cup Bases(c)

\* isinstance(obj, cls) for an object whose type is objcls
isinstanceStrict(objcls, cls) == objcls = cls
isinstance(objcls, cls) == cls \in Mro(objcls)

---------------------------------------------------------------------------
(* The machine record and the log of invoked primitives. *)

Event(by, prim, what, axis, idx, kwargs) ==
    [by |-> by, prim |-> prim, what |-> what, axis |-> axis, idx |-> idx,
     kwargs |-> kwargs]

Raise(m, e) == [m EXCEPT !.exc = e]
Emit(m, ev) == [m EXCEPT !.trace = Append(@, ev)]

\* key in self.plot_dict
Contains(m, k) == k \in DOMAIN m.self.plot_dict.data

\* The value of self.plot_dict[k]: a defaultdict calls its default_factory
\* for a missing key, a plain dict raises KeyError.
GetItem(pd, k) ==
    IF k \in DOMAIN pd.data THEN pd.data[k]
    ELSE IF pd.default_factory = "return_none" THEN None
    ELSE [tag |-> "KeyError"]

Value(m, k) == GetItem(m.self.plot_dict, k)

\* The machine after evaluating self.plot_dict[k]: a defaultdict stores the
\* value its factory made under the missing key.
Lookup(m, k) ==
    IF m.exc # "none" \/ Contains(m, k) THEN m
    ELSE IF m.self.plot_dict.default_factory = "return_none"
         THEN [m EXCEPT !.self.plot_dict.data = Update(@, k :> None)]
         ELSE Raise(m, "KeyError")

---------------------------------------------------------------------------
(* SkyprojPlotter._initialize_plot_dict *)

initialize_plot_dict_plain(self, user_plot_dict) ==
    [self EXCEPT !.plot_dict =
        [default_factory |-> "none",
         data |-> Update(Update(EmptyDict, self.default_plot_dict), user_plot_dict)]]

\* lines 126-128 applied to the dictionary of the previous call
initialize_plot_dict_keep(self, user_plot_dict) ==
    [self EXCEPT !.plot_dict =
        [default_factory |-> "return_none",
         data |-> Update(Update(self.plot_dict.data, self.default_plot_dict),
                         user_plot_dict)]]

initialize_plot_dict(self, user_plot_dict) ==
    [self EXCEPT !.plot_dict =
        [default_factory |-> "return_none",
         data |-> Update(Update(EmptyDict, self.default_plot_dict), user_plot_dict)]]

---------------------------------------------------------------------------
(* Constructors. *)

\* SkyprojPlotter.__init__
SkyprojPlotter_init(variant) ==
    LET self0 == [state |-> "alive",
                  variant |-> variant,
                  plot_type |-> "Skyproj",
                  object_plotter |-> FALSE,
                  default_plot_dict |->
                      ("subplot" :> PyInt(111)
                       @@ "skyproj" :> Cls("MollweideSkyproj")
                       @@ "skyproj_kwargs" :> Dict("lon_0" :> PyInt(0))
                       @@ "decorations" :> ListRef("default_decorations")),
                  plot_dict |-> [default_factory |-> "none", data |-> EmptyDict],
                  figure |-> NoFigure,
                  skyproj |-> NoAxis]
    IN initialize_plot_dict(self0, EmptyDict)

\* HpxmapPlotter.__init__: the plotter object after construction
HpxmapPlotter_init == SkyprojPlotter_init("hpxmap")

\* HpxmapPlotter.__init__ appends to self.default_plot_dict["decorations"],
\* which is the list object of the class attribute default_decorations.
HpxmapPlotter_init_decorations(decorations) == Append(decorations, "colorbar")

\* VisitPerimeterPlotter.__init__
VisitPerimeterPlotter_init ==
    [SkyprojPlotter_init("perimeter") EXCEPT
        !.plot_type = "SkyprojVisitPerimeter", !.object_plotter = TRUE]

Unconstructed ==
    [state |-> "unconstructed", variant |-> "none", plot_type |-> "none",
     object_plotter |-> FALSE, default_plot_dict |-> EmptyDict,
     plot_dict |-> [default_factory |-> "none", data |-> EmptyDict],
     figure |-> NoFigure, skyproj |-> NoAxis]

---------------------------------------------------------------------------
(* SkyprojPlotter._prepare_skyproj *)

DigitChar == <<"0", "1", "2", "3", "4", "5", "6", "7", "8", "9">>
DigitChars == {DigitChar[i] : i \in 1..10}

\* str(n) for an integer n, as the sequence of its characters
RECURSIVE StrOfNat(_)
StrOfNat(n) ==
    IF n < 10 THEN <<DigitChar[n + 1]>>
    ELSE StrOfNat(n \div 10) \o <<DigitChar[(n % 10) + 1]>>
StrOfInt(n) == IF n < 0 THEN <<"-">> \o StrOfNat(0 - n) ELSE StrOfNat(n)

\* int(c) for a one-character string that is a digit
IntOfChar(c) == CHOOSE d \in 0..9 : DigitChar[d + 1] = c

\* Lines 140-142 with the tuple left as given: an integer is not taken apart.
NormalizeSubplotNoSplit(subplot_in) ==
    IF subplot_in.tag = "int"
    THEN [exc |-> "none", subplot |-> <<subplot_in.n>>]
    ELSE IF subplot_in.tag \in {"tuple", "list"}
         THEN [exc |-> "none", subplot |-> subplot_in.items]
         ELSE [exc |-> "TypeError", subplot |-> <<>>]

\* Lines 140-142: the subplot specification as a tuple.  tuple(x) of an
\* integer or of None raises TypeError, int("-") raises ValueError.
NormalizeSubplot(subplot_in) ==
    LET in_integral_form ==
            subplot_in.tag = "int" /\ Len(StrOfInt(subplot_in.n)) = 3
    IN  IF in_integral_form
        THEN LET s == StrOfInt(subplot_in.n)
             IN  IF \A i \in 1..3 : s[i] \in DigitChars
                 THEN [exc |-> "none",
                       subplot |-> [i \in 1..3 |-> IntOfChar(s[i])]]
                 ELSE [exc |-> "ValueError", subplot |-> <<>>]
        ELSE IF subplot_in.tag \in {"tuple", "list"}
             THEN [exc |-> "none", subplot |-> subplot_in.items]
             ELSE [exc |-> "TypeError", subplot |-> <<>>]

\* Figure.add_subplot(nrows, ncols, index) accepts an index in
\* 1..nrows*ncols, add_subplot(n) a three-digit integer of the same
\* meaning; anything else raises ValueError.
add_subplot_ok(subplot) ==
    LET args == IF Len(subplot) = 1 /\ subplot[1] >= 100 /\ subplot[1] <= 999
                THEN <<subplot[1] \div 100, (subplot[1] \div 10) % 10,
                       subplot[1] % 10>>
                ELSE subplot
    IN  /\ Len(args) = 3
        /\ args[1] >= 1 /\ args[2] >= 1
        /\ args[3] >= 1 /\ args[3] <= args[1] * args[2]

\* plt.figure(**fig_kwargs): a new figure object
plt_figure(m, fig_kwargs) ==
    LET id == Len(m.figures) + 1
    IN  [m EXCEPT !.figures = Append(@, [figsize |-> GetItem(
                                 [default_factory |-> "return_none",
                                  data |-> fig_kwargs], "figsize")]),
                  !.self.figure = id]

\* The key under which the registry files a figure: the figure object
\* itself (a Figure hashes and compares by identity).
RegistryKeyByValue(m, figure) ==
    CHOOSE f \in 1..Len(m.figures) : m.figures[f] = m.figures[figure]
RegistryKey(m, figure) == figure

\* Lines 147-161 without the lookup: a new axis for every call.
AcquireAlwaysNew(m, subplot) ==
    LET key == RegistryKey(m, m.self.figure)
        m1 == IF key \in DOMAIN m.skyproj_instances THEN m
              ELSE [m EXCEPT !.skyproj_instances = Update(@, key :> EmptyDict)]
        m2 == Lookup(m1, "skyproj")
        cls == Value(m1, "skyproj")
        m3 == Lookup(m2, "skyproj_kwargs")
        id == Len(m.axes) + 1
        ax == [cls |-> cls.name, figure |-> m.self.figure, subplot |-> subplot,
               kwargs |-> Value(m2, "skyproj_kwargs")]
    IN  [m3 EXCEPT !.axes = Append(@, ax),
                   !.self.skyproj = id,
                   !.skyproj_instances[key] = Update(@, subplot :> id),
                   !.trace = Append(@, Event("_prepare_skyproj", "new_axis",
                                             "axis", id, 0, EmptyDict))]

\* Lines 147-161 with the axis of the wrong class taken out of the
\* registry before the assertion fails.
AcquireEvictOnMismatch(m, subplot) ==
    LET key == RegistryKey(m, m.self.figure)
        m1 == IF key \in DOMAIN m.skyproj_instances THEN m
              ELSE [m EXCEPT !.skyproj_instances = Update(@, key :> EmptyDict)]
        m2 == Lookup(m1, "skyproj")
        cls == Value(m1, "skyproj")
    IN  IF subplot \in DOMAIN m1.skyproj_instances[key]
        THEN LET existing_instance == m1.skyproj_instances[key][subplot]
             IN  IF m2.exc # "none" THEN m2
                 ELSE IF cls.tag # "class" THEN Raise(m2, "TypeError")
                 ELSE IF ~isinstance(m2.axes[existing_instance].cls, cls.name)
                      THEN Raise([m2 EXCEPT !.skyproj_instances[key] =
                                     [s \in (DOMAIN @) \ {subplot} |-> @[s]]],
                                 "AssertionError")
                 ELSE Emit([m2 EXCEPT !.self.skyproj = existing_instance],
                           Event("_prepare_skyproj", "reuse_axis", "axis",
                                 existing_instance, 0, EmptyDict))
        ELSE IF ~add_subplot_ok(subplot) THEN Raise(m1, "ValueError")
             ELSE IF m2.exc # "none" THEN m2
             ELSE IF cls.tag # "class" THEN Raise(m2, "TypeError")
             ELSE LET m3 == Lookup(m2, "skyproj_kwargs")
                      kw == Value(m2, "skyproj_kwargs")
                      id == Len(m.axes) + 1
                      ax == [cls |-> cls.name, figure |-> m.self.figure,
                             subplot |-> subplot, kwargs |-> kw]
                  IN  IF m3.exc # "none" THEN m3
                      ELSE IF kw.tag # "dict" THEN Raise(m3, "TypeError")
                      ELSE [m3 EXCEPT
                              !.axes = Append(@, ax),
                              !.self.skyproj = id,
                              !.skyproj_instances[key] = Update(@, subplot :> id),
                              !.trace = Append(@, Event("_prepare_skyproj",
                                          "new_axis", "axis", id, 0, EmptyDict))]

\* Lines 147-161: reuse the axis filed under (figure, subplot) or make one.
Acquire(m, subplot) ==
    LET key == RegistryKey(m, m.self.figure)
        m1 == IF key \in DOMAIN m.skyproj_instances THEN m
              ELSE [m EXCEPT !.skyproj_instances = Update(@, key :> EmptyDict)]
        m2 == Lookup(m1, "skyproj")
        cls == Value(m1, "skyproj")
    IN  IF subplot \in DOMAIN m1.skyproj_instances[key]
        THEN LET existing_instance == m1.skyproj_instances[key][subplot]
             IN  IF m2.exc # "none" THEN m2
                 ELSE IF cls.tag # "class" THEN Raise(m2, "TypeError")
                 ELSE IF ~isinstance(m2.axes[existing_instance].cls, cls.name)
                      THEN Raise(m2, "AssertionError")
                 ELSE Emit([m2 EXCEPT !.self.skyproj = existing_instance],
                           Event("_prepare_skyproj", "reuse_axis", "axis",
                                 existing_instance, 0, EmptyDict))
        ELSE IF ~add_subplot_ok(subplot) THEN Raise(m1, "ValueError")
             ELSE IF m2.exc # "none" THEN m2
             ELSE IF cls.tag # "class" THEN Raise(m2, "TypeError")
             ELSE LET m3 == Lookup(m2, "skyproj_kwargs")
                      kw == Value(m2, "skyproj_kwargs")
                      id == Len(m.axes) + 1
                      ax == [cls |-> cls.name, figure |-> m.self.figure,
                             subplot |-> subplot, kwargs |-> kw]
                  IN  IF m3.exc # "none" THEN m3
                      ELSE IF kw.tag # "dict" THEN Raise(m3, "TypeError")
                      ELSE [m3 EXCEPT
                              !.axes = Append(@, ax),
                              !.self.skyproj = id,
                              !.skyproj_instances[key] = Update(@, subplot :> id),
                              !.trace = Append(@, Event("_prepare_skyproj",
                                          "new_axis", "axis", id, 0, EmptyDict))]

prepare_skyproj(m, fig) ==
    IF m.exc # "none" THEN m
    ELSE
    LET pd == m.self.plot_dict
        fig_kwargs == [k \in (DOMAIN pd.data) \cap {"figsize"} |-> pd.data[k]]
        m1 == IF fig = NoFigure THEN plt_figure(m, fig_kwargs)
              ELSE [m EXCEPT !.self.figure = fig]
        m2 == Lookup(m1, "subplot")
        norm == NormalizeSubplot(Value(m1, "subplot"))
    IN  IF m2.exc # "none" THEN m2
        ELSE IF norm.exc # "none" THEN Raise(m2, norm.exc)
        ELSE Acquire(m2, norm.subplot)

---------------------------------------------------------------------------
(* Class attributes: the keyword bundles. *)

default_colorbar_kwargs ==
    "location" :> Str("bottom") @@ "shrink" :> PyFloat("0.75")
    @@ "aspect" :> PyInt(25) @@ "pad" :> PyFloat("0.1")
    @@ "orientation" :> Str("horizontal")
ecliptic_kwargs == "edgecolor" :> Str("green")
galactic_plane_kwargs == "edgecolor" :> Str("blue")
sun_kwargs == "color" :> Str("yellow")
moon_kwargs == "color" :> Str("orange")
horizon_kwargs == "edgecolor" :> Str("black") @@ "linewidth" :> PyInt(3)
default_hpixmap_kwargs == "zoom" :> Bool(FALSE)
default_visits_kwargs ==
    "edgecolor" :> Str("black") @@ "linewidth" :> PyFloat("0.2")

---------------------------------------------------------------------------
(* The drawing methods of SkyprojPlotter. *)

\* draw_circle: self.skyproj.draw_polygon(points.ra, points.decl, **kwargs)
draw_circle(m, what, kwargs) ==
    IF m.exc # "none" THEN m
    ELSE Emit(m, Event("decorate", "draw_polygon", what, m.self.skyproj, 0, kwargs))

draw_ecliptic(m) == draw_circle(m, "ecliptic", ecliptic_kwargs)

draw_galactic_plane(m) == draw_circle(m, "galactic_plane", galactic_plane_kwargs)

\* the test of lines 224 and 252; the right operand is evaluated only when
\* the key is there
no_model_observatory(m) ==
    ~Contains(m, "model_observatory") \/ Value(m, "model_observatory") = None

draw_zd(m, kwargs) ==
    IF m.exc # "none" THEN m
    ELSE IF no_model_observatory(m)
         THEN Emit(m, Event("decorate", "warn", "horizon", NoAxis, 0, EmptyDict))
         ELSE IF Value(m, "model_observatory").tag # "object"
              THEN Raise(m, "AttributeError")
              ELSE draw_circle(m, "horizon", kwargs)

\* draw_body without the test of line 252: None has no attribute mjd
draw_body_unguarded(m, body, kwargs) ==
    IF m.exc # "none" THEN m
    ELSE IF Value(m, "model_observatory").tag # "object"
         THEN Raise(Lookup(m, "model_observatory"), "AttributeError")
         ELSE Emit(m, Event("decorate", "scatter", body, m.self.skyproj,
                            0, kwargs))

draw_body(m, body, kwargs) ==
    IF m.exc # "none" THEN m
    ELSE IF no_model_observatory(m)
         THEN Emit(m, Event("decorate", "warn", body, NoAxis, 0, EmptyDict))
         ELSE IF Value(m, "model_observatory").tag # "object"
              THEN Raise(m, "AttributeError")
              ELSE Emit(m, Event("decorate", "scatter", body, m.self.skyproj,
                                 0, kwargs))

\* The list a "decorations" value denotes.
ListItems(m, v) ==
    IF v.tag = "listref" THEN m.default_decorations ELSE v.items

\* name in decorations
InList(name, items) == \E i \in 1..Len(items) : items[i] = name

\* one `if name in decorations: draw` statement of decorate
decorate_step(m, name, items) ==
    IF m.exc # "none" \/ ~InList(name, items) THEN m
    ELSE CASE name = "ecliptic" -> draw_ecliptic(m)
           [] name = "galactic_plane" -> draw_galactic_plane(m)
           [] name = "sun" -> draw_body(m, "sun", sun_kwargs)
           [] name = "moon" -> draw_body(m, "moon", moon_kwargs)
           [] name = "horizon" -> draw_zd(m, horizon_kwargs)
           [] OTHER -> m

\* The order of the statements of SkyprojPlotter.decorate.
decorate_order_as_listed(m, items) ==
    [i \in 1..Len(items) |-> items[i]]
decorate_order(m, items) ==
    <<"ecliptic", "galactic_plane", "sun", "moon", "horizon">>

RECURSIVE decorate_steps(_, _, _, _)
decorate_steps(m, order, i, items) ==
    IF i > Len(order) THEN m
    ELSE decorate_steps(decorate_step(m, order[i], items), order, i + 1, items)

\* SkyprojPlotter.decorate
SkyprojPlotter_decorate(m) ==
    IF m.exc # "none" THEN m
    ELSE LET m1 == Lookup(m, "decorations")
             decorations == Value(m, "decorations")
         IN  IF m1.exc # "none" THEN m1
             ELSE IF decorations.tag \notin {"list", "tuple", "listref"}
                  THEN Raise(m1, "TypeError")
             ELSE LET items == ListItems(m1, decorations)
                  IN  decorate_steps(m1, decorate_order(m1, items), 1, items)

---------------------------------------------------------------------------
(* HpxmapPlotter *)

\* str.lower() on the orientation strings of the model
Lower(s) ==
    CASE s = "Vertical" -> "vertical"
      [] s = "HORIZONTAL" -> "horizontal"
      [] s = "Diagonal" -> "diagonal"
      [] OTHER -> s

\* Lines 344-354 with the orientation compared as given, not lower-cased.
colorbar_orientation_exact(m, colorbar_kwargs) ==
    IF ~Contains(m, "cbar_orientation")
    THEN [exc |-> "none", kwargs |-> colorbar_kwargs]
    ELSE LET orientation == Value(m, "cbar_orientation")
             kw == Update(colorbar_kwargs, "orientation" :> orientation)
         IN  IF orientation.tag # "str"
             THEN [exc |-> "AttributeError", kwargs |-> kw]
             ELSE CASE orientation.s = "vertical" ->
                         [exc |-> "none",
                          kwargs |-> Update(kw, "shrink" :> PyFloat("0.5")
                                                @@ "location" :> Str("right"))]
                    [] orientation.s = "horizontal" ->
                         [exc |-> "none",
                          kwargs |-> Update(kw, "location" :> Str("bottom"))]
                    [] OTHER ->
                         [exc |-> "NotImplementedError", kwargs |-> kw]

\* Lines 344-354: the orientation branch of draw_colorbar.  The result is
\* the keyword bundle and the exception raised, if any.
colorbar_orientation(m, colorbar_kwargs) ==
    IF ~Contains(m, "cbar_orientation")
    THEN [exc |-> "none", kwargs |-> colorbar_kwargs]
    ELSE LET orientation == Value(m, "cbar_orientation")
             kw == Update(colorbar_kwargs, "orientation" :> orientation)
         IN  IF orientation.tag # "str"
             THEN [exc |-> "AttributeError", kwargs |-> kw]
             ELSE CASE Lower(orientation.s) = "vertical" ->
                         [exc |-> "none",
                          kwargs |-> Update(kw, "shrink" :> PyFloat("0.5")
                                                @@ "location" :> Str("right"))]
                    [] Lower(orientation.s) = "horizontal" ->
                         [exc |-> "none",
                          kwargs |-> Update(kw, "location" :> Str("bottom"))]
                    [] OTHER ->
                         [exc |-> "NotImplementedError", kwargs |-> kw]

\* HpxmapPlotter.draw_colorbar
draw_colorbar(m) ==
    IF m.exc # "none" THEN m
    ELSE
    LET kw0 == Update(EmptyDict, default_colorbar_kwargs)
        kw1 == IF Contains(m, "extend")
               THEN Update(kw0, "extendrect" :>
                                Bool(Value(m, "extend") = Str("neither")))
               ELSE kw0
        kw2 == IF Contains(m, "cbar_format")
               THEN Update(kw1, "format" :> Value(m, "cbar_format"))
               ELSE kw1
        o == colorbar_orientation(m, kw2)
    IN  IF o.exc # "none" THEN Raise(m, o.exc)
        ELSE
        LET m1 == Emit(m, Event("decorate", "draw_colorbar", "colorbar",
                                m.self.skyproj, 0, o.kwargs))
            m2 == Lookup(m1, "xlabel")
            m3 == Lookup(m2, "fontsize")
            m4 == Emit(m3, Event("decorate", "set_label", "colorbar",
                                 m.self.skyproj, 0,
                                 "label" :> Value(m1, "xlabel")
                                 @@ "fontsize" :> Value(m2, "fontsize")))
            m5 == Lookup(m4, "labelsize")
        IN  IF Value(m4, "labelsize") # None
            THEN Emit(m5, Event("decorate", "tick_params", "colorbar",
                                m.self.skyproj, 0,
                                "labelsize" :> Value(m4, "labelsize")))
            ELSE m5

\* HpxmapPlotter.decorate
HpxmapPlotter_decorate(m) ==
    LET m1 == SkyprojPlotter_decorate(m)
    IN  IF m1.exc # "none" THEN m1
        ELSE IF InList("colorbar", ListItems(m1, Value(m1, "decorations")))
             THEN draw_colorbar(m1)
             ELSE m1

\* HpxmapPlotter.draw.  The colour map and the colour limits come from
\* set_color_map and set_color_lims of spatial_plotters and are passed on.
HpxmapPlotter_draw(m, metric_values) ==
    IF m.exc # "none" THEN m
    ELSE
    LET kw0 == Update(EmptyDict, default_hpixmap_kwargs)
        user == Value(m, "draw_hpxmap_kwargs")
        kw1 == IF Contains(m, "draw_hpxmap_kwargs") /\ user.tag = "dict"
               THEN Update(kw0, user.d) ELSE kw0
        kw2 == Update(kw1, "cmap" :> Obj("set_color_map")
                           @@ "vmin" :> Obj("clims[0]")
                           @@ "vmax" :> Obj("clims[1]"))
    IN  IF Contains(m, "draw_hpxmap_kwargs") /\ user.tag # "dict"
        THEN Raise(m, "TypeError")
        ELSE Emit(m, Event("draw", "draw_hpxmap", "map", m.self.skyproj, 0, kw2))

---------------------------------------------------------------------------
(* VisitPerimeterPlotter *)

RECURSIVE draw_visits(_, _, _, _)
draw_visits(m, i, n, kwargs) ==
    IF i > n THEN m
    ELSE draw_visits(Emit(m, Event("draw", "draw_polygon", "visit",
                                   m.self.skyproj, i, kwargs)),
                     i + 1, n, kwargs)

\* lines 422-427 with the defaults applied over the caller's styling
VisitPerimeterPlotter_draw_defaults_last(m, metric_values) ==
    IF m.exc # "none" THEN m
    ELSE
    LET user == Value(m, "draw_polygon_kwargs")
        kw1 == IF Contains(m, "draw_polygon_kwargs") /\ user.tag = "dict"
               THEN Update(user.d, default_visits_kwargs)
               ELSE Update(EmptyDict, default_visits_kwargs)
        m1 == Lookup(m, "camera_perimeter_func")
        camera_perimeter_func == Value(m, "camera_perimeter_func")
    IN  IF Contains(m, "draw_polygon_kwargs") /\ user.tag # "dict"
        THEN Raise(m, "TypeError")
        ELSE IF m1.exc # "none" THEN m1
        ELSE IF camera_perimeter_func.tag # "function"
             THEN Raise(m1, "TypeError")
             ELSE draw_visits(m1, 1, metric_values, kw1)

\* VisitPerimeterPlotter.draw: metric_values[0] holds n visits, for which
\* the camera perimeter function returns n outlines.
VisitPerimeterPlotter_draw(m, metric_values) ==
    IF m.exc # "none" THEN m
    ELSE
    LET kw0 == Update(EmptyDict, default_visits_kwargs)
        user == Value(m, "draw_polygon_kwargs")
        kw1 == IF Contains(m, "draw_polygon_kwargs") /\ user.tag = "dict"
               THEN Update(kw0, user.d) ELSE kw0
        m1 == Lookup(m, "camera_perimeter_func")
        camera_perimeter_func == Value(m, "camera_perimeter_func")
    IN  IF Contains(m, "draw_polygon_kwargs") /\ user.tag # "dict"
        THEN Raise(m, "TypeError")
        ELSE IF m1.exc # "none" THEN m1
        ELSE IF camera_perimeter_func.tag # "function"
             THEN Raise(m1, "TypeError")
             ELSE draw_visits(m1, 1, metric_values, kw1)

---------------------------------------------------------------------------
(* SkyprojPlotter.__call__ *)

draw(m, metric_values) ==
    IF m.self.variant = "hpxmap" THEN HpxmapPlotter_draw(m, metric_values)
    ELSE VisitPerimeterPlotter_draw(m, metric_values)

decorate(m) ==
    IF m.self.variant = "hpxmap" THEN HpxmapPlotter_decorate(m)
    ELSE SkyprojPlotter_decorate(m)

\* line 315
call_initialize(m, user_plot_dict) ==
    Emit([m EXCEPT !.self = initialize_plot_dict(m.self, user_plot_dict)],
         Event("_initialize_plot_dict", "resolve", "plot_dict", NoAxis, 0,
               EmptyDict))

\* lines 315-320 with the last two statements swapped
call_decorate_first(m, metric_values, user_plot_dict, fig) ==
    LET m1 == call_initialize(m, user_plot_dict)
        m2 == prepare_skyproj(m1, fig)
        m3 == decorate(m2)
        m4 == draw(m3, metric_values)
    IN  IF m4.exc # "none" THEN m4
        ELSE Emit(m4, Event("__call__", "return", "figure", NoAxis, 0,
                            "figure" :> PyInt(m4.self.figure)))

\* lines 315-320: the machine when __call__ returns or raises
call(m, metric_values, user_plot_dict, fig) ==
    LET m1 == call_initialize(m, user_plot_dict)
        m2 == prepare_skyproj(m1, fig)
        m3 == draw(m2, metric_values)
        m4 == decorate(m3)
    IN  IF m4.exc # "none" THEN m4
        ELSE Emit(m4, Event("__call__", "return", "figure", NoAxis, 0,
                            "figure" :> PyInt(m4.self.figure)))

---------------------------------------------------------------------------
(* compute_circle_points.  Angles are whole degrees.  The right ascensions *)
(* of the points come from astropy (directional_offset_by, line 53), which *)
(* gives one value in [0, 360) per bearing: they are an input here.  The   *)
(* declinations are passed on untouched and are left out.                  *)

\* np.arange(start, stop, step) for integers and step >= 1
arange(start, stop, step) ==
    LET n == IF stop > start THEN ((stop - start) + (step - 1)) \div step ELSE 0
    IN  [i \in 1..n |-> start + (i - 1) * step]

\* lines 62-67: the loop body for index i, then the rest of the loop
RECURSIVE unwrap(_, _, _)
unwrap(ras, i, previous_ra) ==
    IF i > Len(ras) THEN ras
    ELSE LET r1 == IF ras[i] - previous_ra > 180 THEN ras[i] - 360 ELSE ras[i]
             r2 == IF r1 - previous_ra < -180 THEN r1 + 360 ELSE r1
         IN  unwrap([ras EXCEPT ![i] = r2], i + 1, r2)

\* The call and the columns of the DataFrame it returns; raw_ras[i] is the
\* right ascension astropy gives for the i-th bearing.
compute_circle_points(start_bear, end_bear, step, raw_ras) ==
    LET bearings == arange(start_bear, end_bear + step, step)
        ras == [i \in 1..Len(bearings) |-> raw_ras[i]]
    IN  [called |-> TRUE,
         start_bear |-> start_bear, end_bear |-> end_bear, step |-> step,
         raw_ras |-> ras,
         bearing |-> bearings,
         ra |-> IF Len(ras) = 0 THEN <<>> ELSE unwrap(ras, 2, ras[1]),
         exc |-> IF Len(ras) = 0 THEN "IndexError" ELSE "none"]

\* before the first call
NoCircle ==
    [called |-> FALSE, start_bear |-> 0, end_bear |-> 0, step |-> 1,
     raw_ras |-> <<>>, bearing |-> <<>>, ra |-> <<>>, exc |-> "none"]

---------------------------------------------------------------------------
(* The state machine. *)

PlotterIds == 1..MaxPlotters

\* the primitives of the rendering backend that draw on an axis
DrawPrims == {"draw_polygon", "draw_hpxmap", "scatter", "draw_colorbar"}

MachineOf(p) ==
    [self |-> plotters[p],
     skyproj_instances |-> skyproj_instances,
     default_decorations |-> default_decorations,
     figures |-> figures,
     axes |-> axes,
     trace |-> <<>>,
     exc |-> "none"]

\* what the events of a call add to the content of axis a
DrawnOn(tr, a) ==
    LET on == SelectSeq(tr, LAMBDA e : e.prim \in DrawPrims /\ e.axis = a)
    IN  [i \in 1..Len(on) |-> on[i].what]

\* the axis a call acquired, NoAxis when it raised before it had one
AcquiredAxis(tr) ==
    LET got == SelectSeq(tr, LAMBDA e : e.prim \in {"new_axis", "reuse_axis"})
    IN  IF Len(got) = 0 THEN NoAxis ELSE got[1].axis

CreatedAxis(tr) == \E i \in 1..Len(tr) : tr[i].prim = "new_axis"

Init ==
    /\ plotters = [p \in PlotterIds |-> Unconstructed]
    /\ skyproj_instances = EmptyDict
    /\ default_decorations = <<"ecliptic", "galactic_plane">>
    /\ figures = <<>>
    /\ live = {}
    /\ callerRefs = {}
    /\ axes = <<>>
    /\ overlays = <<>>
    /\ calls = <<>>
    /\ trace = <<>>
    /\ collected = FALSE
    /\ circle = NoCircle

\* HpxmapPlotter() or VisitPerimeterPlotter()
Construct(p, variant) ==
    /\ plotters[p].state = "unconstructed"
    /\ \A q \in PlotterIds : q < p => plotters[q].state # "unconstructed"
    /\ plotters' = [plotters EXCEPT ![p] =
           IF variant = "hpxmap" THEN HpxmapPlotter_init
           ELSE VisitPerimeterPlotter_init]
    /\ default_decorations' =
           IF variant = "hpxmap"
           THEN HpxmapPlotter_init_decorations(default_decorations)
           ELSE default_decorations
    /\ collected' = FALSE
    /\ UNCHANGED <<skyproj_instances, figures, live, callerRefs, axes,
                   overlays, calls, trace, circle>>

\* the calling program makes a figure of its own
NewFigure ==
    /\ Len(figures) < MaxFigures
    /\ figures' = Append(figures, [figsize |-> None])
    /\ live' = live \cup {Len(figures) + 1}
    /\ callerRefs' = callerRefs \cup {Len(figures) + 1}
    /\ collected' = FALSE
    /\ UNCHANGED <<plotters, skyproj_instances, default_decorations, axes,
                   overlays, calls, trace, circle>>

\* plotter(metric_values, slicer, user_plot_dict, fig)
Call(p, metric_values, user_plot_dict, fig) ==
    /\ plotters[p].state = "alive"
    /\ fig = NoFigure => Len(figures) < MaxFigures
    /\ \E m \in {call(MachineOf(p), metric_values, user_plot_dict, fig)} :
           /\ plotters' = [plotters EXCEPT ![p] = m.self]
           /\ skyproj_instances' = m.skyproj_instances
           /\ figures' = m.figures
           /\ live' = live \cup {m.self.figure}
           /\ callerRefs' = callerRefs \cup {m.self.figure}
           /\ axes' = m.axes
           /\ overlays' = [a \in 1..Len(m.axes) |->
                  (IF a \in DOMAIN overlays THEN overlays[a] ELSE <<>>)
                  \o DrawnOn(m.trace, a)]
           /\ calls' = Append(calls,
                  [plotter |-> p,
                   metric_values |-> metric_values,
                   fig |-> fig,
                   figure |-> m.self.figure,
                   subplot_in |-> GetItem(m.self.plot_dict, "subplot"),
                   subplot |-> NormalizeSubplot(
                                   GetItem(m.self.plot_dict, "subplot")).subplot,
                   skyproj |-> GetItem(m.self.plot_dict, "skyproj"),
                   user_plot_dict |-> user_plot_dict,
                   axis |-> AcquiredAxis(m.trace),
                   created |-> CreatedAxis(m.trace),
                   exc |-> m.exc])
           /\ trace' = m.trace
    /\ collected' = FALSE
    /\ UNCHANGED <<default_decorations, circle>>

\* the calling program drops its reference to a figure (del, plt.close)
DropFigure(c) ==
    /\ c \in callerRefs
    /\ callerRefs' = callerRefs \ {c}
    /\ collected' = FALSE
    /\ UNCHANGED <<plotters, skyproj_instances, default_decorations, figures,
                   live, axes, overlays, calls, trace, circle>>

\* the calling program drops a plotter
Discard(p) ==
    /\ plotters[p].state = "alive"
    /\ plotters' = [plotters EXCEPT ![p].state = "discarded"]
    /\ collected' = FALSE
    /\ UNCHANGED <<skyproj_instances, default_decorations, figures, live,
                   callerRefs, axes, overlays, calls, trace, circle>>

\* The figures referenced from outside the registry: by the calling
\* program, by a plotter's figure attribute, or through the axis of a
\* plotter's skyproj attribute.
ExternallyReferenced ==
    callerRefs
    \cup {plotters[p].figure : p \in {q \in PlotterIds : plotters[q].state = "alive"}}
    \cup {axes[plotters[p].skyproj].figure :
            p \in {q \in PlotterIds : plotters[q].state = "alive"
                                      /\ plotters[q].skyproj # NoAxis}}

\* The figures the values of the registry reference: a WeakKeyDictionary
\* holds its values strongly, and the axis made at lines 159-160 belongs
\* to self.figure.
ReferencedByValues ==
    {axes[skyproj_instances[c][s]].figure :
        <<c, s>> \in {<<c2, s2>> \in (DOMAIN skyproj_instances) \X
                        (UNION {DOMAIN skyproj_instances[c3] :
                                  c3 \in DOMAIN skyproj_instances}) :
                      s2 \in DOMAIN skyproj_instances[c2]}}

Reachable == (ExternallyReferenced \cup ReferencedByValues) \ {NoFigure}

\* A run of the garbage collector: the figures nothing references are
\* freed, and the weak dictionary drops the entries keyed by them.
Collect ==
    /\ ~collected
    /\ live' = live \cap Reachable
    /\ skyproj_instances' =
           [c \in (DOMAIN skyproj_instances) \cap Reachable |->
               skyproj_instances[c]]
    /\ collected' = TRUE
    /\ UNCHANGED <<plotters, default_decorations, figures, callerRefs, axes,
                   overlays, calls, trace, circle>>

---------------------------------------------------------------------------
(* The arguments of the calls. *)

Absent == [tag |-> "absent"]
WithOption(d, k, v) == IF v = Absent THEN d ELSE Update(d, k :> v)

\* the caller's camera perimeter function, needed by the perimeter variant
BaseOptions == "camera_perimeter_func" :> Func("camera_perimeter_func")

Variants == {"hpxmap", "perimeter"}

\* Sub-region and projection class: the options the registry reads.
SubplotChoices == {Tup(<<1, 1, 1>>), PyInt(121)}
SkyprojChoices == {Cls("McBrydeSkyproj"), Cls("DESMcBrydeSkyproj")}

RegistryDicts ==
    {BaseOptions}
    \cup {WithOption(BaseOptions, "subplot", s) : s \in SubplotChoices}
    \cup {WithOption(BaseOptions, "skyproj", c) : c \in SkyprojChoices}

\* A sub-region whose index add_subplot rejects, and one it accepts.
CollectDicts == {BaseOptions, WithOption(BaseOptions, "subplot", PyInt(120))}

\* Decorations, observatory and colour bar: the options decorate reads.
DecorationChoices ==
    {Absent,
     List(<<"colorbar", "sun", "ecliptic">>),
     List(<<"horizon", "moon", "galactic_plane", "moon">>)}
ObservatoryChoices == {Absent, None, Obj("model_observatory")}
OrientationChoices ==
    {Absent, None, Str("vertical"), Str("Vertical"), Str("horizontal"),
     Str("diagonal")}

DecorDicts ==
    {WithOption(WithOption(WithOption(BaseOptions, "decorations", d),
                           "model_observatory", o), "cbar_orientation", c) :
        d \in DecorationChoices, o \in ObservatoryChoices,
        c \in OrientationChoices}
    \cup {BaseOptions @@ "extend" :> Str("neither") @@ "cbar_format" :> Str("%d")
          @@ "labelsize" :> PyInt(8) @@ "xlabel" :> Str("count")}

\* Options that differ from one call of a plotter to the next.
RepeatDicts ==
    {BaseOptions,
     BaseOptions @@ "model_observatory" :> Obj("model_observatory")
         @@ "decorations" :> List(<<"sun", "ecliptic", "colorbar">>),
     BaseOptions @@ "skyproj" :> Cls("McBrydeSkyproj"),
     BaseOptions @@ "xlabel" :> Str("count")
         @@ "cbar_orientation" :> Str("vertical")}

\* The styling of the visit outlines; the last has no perimeter function.
VisitDicts ==
    {BaseOptions,
     BaseOptions @@ "draw_polygon_kwargs" :>
         Dict("edgecolor" :> Str("red") @@ "alpha" :> PyFloat("0.5")),
     EmptyDict}

---------------------------------------------------------------------------
(* Spec: plotters of both variants sharing figures and sub-regions. *)

\* the plotters are made in turn, a filled-map plotter first
ConstructAlt ==
    \E p \in PlotterIds :
        Construct(p, IF p % 2 = 1 THEN "hpxmap" ELSE "perimeter")

CallRegistry ==
    /\ Len(calls) < MaxCalls
    /\ \E p \in PlotterIds, d \in RegistryDicts, fig \in {NoFigure} \cup callerRefs :
          Call(p, 1, d, fig)

Next == ConstructAlt \/ NewFigure \/ CallRegistry

Spec == Init /\ [][Next]_vars

---------------------------------------------------------------------------
(* SpecCollect: figures and plotters dropped and collected. *)

CallCollect ==
    /\ Len(calls) < MaxCollectCalls
    /\ \E p \in PlotterIds, d \in CollectDicts, fig \in {NoFigure} \cup callerRefs :
          Call(p, 1, d, fig)

NextCollect ==
    \/ ConstructAlt
    \/ NewFigure
    \/ CallCollect
    \/ \E c \in 1..MaxFigures : DropFigure(c)
    \/ \E p \in PlotterIds : Discard(p)
    \/ Collect

SpecCollect == Init /\ [][NextCollect]_vars

---------------------------------------------------------------------------
(* SpecDecor: one call per decoration list, observatory and orientation. *)

\* plotters of either variant, in any order
ConstructAny == \E p \in PlotterIds, v \in Variants : Construct(p, v)

CallDecor ==
    /\ Len(calls) < MaxDecorCalls
    /\ \E p \in PlotterIds, d \in DecorDicts : Call(p, 1, d, NoFigure)

NextDecor == ConstructAny \/ CallDecor

SpecDecor == Init /\ [][NextDecor]_vars

---------------------------------------------------------------------------
(* SpecRepeat: plotters called again, on a new figure or on one a call *)
(* has returned.                                                        *)

CallRepeat ==
    /\ Len(calls) < MaxRepeatCalls
    /\ \E p \in PlotterIds, d \in RepeatDicts, fig \in {NoFigure} \cup callerRefs :
          Call(p, 1, d, fig)

NextRepeat == ConstructAlt \/ CallRepeat

SpecRepeat == Init /\ [][NextRepeat]_vars

---------------------------------------------------------------------------
(* SpecCircle: compute_circle_points on arcs of up to MaxPoints points. *)

StartBearChoices == {0, 90}
EndBearChoices == {90, 180, 270, 360}
StepChoices == {90, 120, 180}
\* right ascensions in [0, 360)
RaChoices == {0, 60, 120, 180, 240, 300}

\* arcs of more than MaxPoints points are left out
\* The function keeps nothing between calls: one call per behaviour.
ComputeCirclePoints ==
    \E start_bear \in StartBearChoices, end_bear \in EndBearChoices,
       step \in StepChoices :
        /\ ~circle.called
        /\ start_bear <= end_bear
        /\ \E n \in 1..MaxPoints :
              /\ n = Len(arange(start_bear, end_bear + step, step))
              /\ \E raw_ras \in [1..n -> RaChoices] :
                    circle' = compute_circle_points(start_bear, end_bear, step,
                                                    raw_ras)
        /\ UNCHANGED <<plotters, skyproj_instances, default_decorations,
                       figures, live, callerRefs, axes, overlays, calls, trace,
                       collected>>

NextCircle == ComputeCirclePoints

SpecCircle == Init /\ [][NextCircle]_vars

---------------------------------------------------------------------------
(* SpecVisits: calls with metric values of 0 to MaxVisits visits, each on *)
(* a figure of its own.                                                    *)

CallVisits ==
    /\ Len(calls) < MaxVisitCalls
    /\ \E p \in PlotterIds, n \in 0..MaxVisits, d \in VisitDicts :
          Call(p, n, d, NoFigure)

NextVisits == ConstructAlt \/ CallVisits

SpecVisits == Init /\ [][NextVisits]_vars

---------------------------------------------------------------------------
(* What the calls made so far say about the registry. *)

CallIds == 1..Len(calls)

\* call i got hold of an axis (it may have raised afterwards)
Acquired(i) == calls[i].axis # NoAxis

\* the (figure, sub-region) pair call i targets
TargetKey(i) == calls[i].subplot
SameTarget(i, j) ==
    /\ calls[i].figure = calls[j].figure
    /\ TargetKey(i) = TargetKey(j)

\* the primitives that act on an axis
OnAxisPrims == DrawPrims \cup {"set_label", "tick_params"}
\* the latest call acted on an axis
ActedOnAxis == \E k \in 1..Len(trace) : trace[k].prim \in OnAxisPrims

\* C1: at most one projection axis is ever made per (figure, normalized
\* sub-region); the first call that targets a pair makes the axis, every
\* later call that acquires an axis for the pair gets that same axis and
\* makes none, the registry files each axis under its own figure and
\* sub-region, and every primitive of a call acts on the axis it acquired.
C1_OneAxisPerSubregion ==
    /\ \A a, b \in 1..Len(axes) :
          (axes[a].figure = axes[b].figure /\ axes[a].subplot = axes[b].subplot)
          => a = b
    /\ \A c \in DOMAIN skyproj_instances :
          \A s \in DOMAIN skyproj_instances[c] :
              LET a == skyproj_instances[c][s]
              IN  a \in 1..Len(axes) /\ axes[a].figure = c /\ axes[a].subplot = s
    /\ \A i, j \in CallIds :
          (i < j /\ Acquired(i) /\ Acquired(j) /\ SameTarget(i, j))
          => (calls[j].axis = calls[i].axis /\ ~calls[j].created)
    /\ \A j \in CallIds :
          (Acquired(j) /\ ~\E i \in CallIds : i < j /\ Acquired(i) /\ SameTarget(i, j))
          => calls[j].created
    /\ \A j \in CallIds :
          Acquired(j) =>
              /\ calls[j].figure \in DOMAIN skyproj_instances
              /\ TargetKey(j) \in DOMAIN skyproj_instances[calls[j].figure]
              /\ skyproj_instances[calls[j].figure][TargetKey(j)] = calls[j].axis
    /\ \A k \in 1..Len(trace) :
          trace[k].prim \in OnAxisPrims =>
              (trace[k].axis = calls[Len(calls)].axis /\ trace[k].axis # NoAxis)

\* Two plotters of different variants have drawn on the same sub-region of
\* the same figure: the second reused the axis the first had made.
C1_Witness ==
    \E i, j \in CallIds :
        /\ i < j /\ Acquired(i) /\ Acquired(j) /\ SameTarget(i, j)
        /\ calls[i].plotter # calls[j].plotter
        /\ plotters[calls[i].plotter].variant # plotters[calls[j].plotter].variant
        /\ calls[i].created /\ ~calls[j].created
        /\ calls[j].exc = "none"
        /\ ActedOnAxis

\* the 3-tuple that corresponds to a three-digit integer
TupleOfDigits(n) == <<n \div 100, (n \div 10) % 10, n % 10>>

\* call i gives its sub-region as a three-digit integer and call j as the
\* corresponding 3-tuple
IntAndTuple(i, j) ==
    /\ calls[i].subplot_in.tag = "int"
    /\ calls[i].subplot_in.n >= 100 /\ calls[i].subplot_in.n <= 999
    /\ calls[j].subplot_in.tag = "tuple"
    /\ calls[j].subplot_in.items = TupleOfDigits(calls[i].subplot_in.n)

\* C2: two calls on the same figure, one with the sub-region as a
\* three-digit integer and one with it as the corresponding 3-tuple, in
\* either order, acquire the identical axis, filed under the tuple.
C2_IntegerAndTupleSameAxis ==
    \A i, j \in CallIds :
        (i # j /\ IntAndTuple(i, j) /\ calls[i].figure = calls[j].figure
         /\ Acquired(i) /\ Acquired(j))
        => /\ calls[i].axis = calls[j].axis
           /\ axes[calls[i].axis].subplot = calls[j].subplot_in.items
           /\ calls[j].subplot_in.items \in DOMAIN skyproj_instances[calls[i].figure]

\* The tuple form came first and the integer form second, on one figure.
C2_Witness ==
    \E i, j \in CallIds :
        /\ j < i /\ IntAndTuple(i, j) /\ calls[i].figure = calls[j].figure
        /\ Acquired(i) /\ Acquired(j)
        /\ calls[i].subplot_in = PyInt(111)

\* the axis filed for the target of call j before call j ran
CachedBefore(j) ==
    {calls[i].axis : i \in {h \in CallIds : h < j /\ Acquired(h) /\ SameTarget(h, j)}}

\* C3 as stated: with an axis cached for the target, a call fails with an
\* assertion whenever the requested class is not equal to the class of the
\* cached axis, and gets the cached axis only when the two are equal.
C3_TypeEqualityAsserted ==
    \A j \in CallIds : \A a \in CachedBefore(j) :
        /\ (calls[j].skyproj.name # axes[a].cls)
           => (calls[j].exc = "AssertionError" /\ ~Acquired(j))
        /\ (calls[j].axis = a) => (calls[j].skyproj.name = axes[a].cls)

\* C3 amended: with an axis cached for the target, a call fails with an
\* assertion exactly when the cached axis is not an instance of the
\* requested class (neither that class nor a subclass of it); otherwise it
\* gets the cached axis.
C3_InstanceAsserted ==
    \A j \in CallIds : \A a \in CachedBefore(j) :
        IF calls[j].skyproj.name \in {axes[a].cls} \cup Bases(axes[a].cls)
        THEN calls[j].axis = a /\ calls[j].exc # "AssertionError"
        ELSE calls[j].exc = "AssertionError" /\ ~Acquired(j)

\* A call asked for a class the cached axis is no instance of, and failed.
C3_Witness ==
    \E j \in CallIds : \E a \in CachedBefore(j) :
        /\ calls[j].skyproj.name # axes[a].cls
        /\ calls[j].exc = "AssertionError"
        /\ plotters[calls[j].plotter].skyproj # NoAxis

\* C4 as stated: once the collector has run, every figure that has an
\* entry in the registry is still referenced from outside the registry;
\* the entry of a figure that the calling program and every plotter have
\* dropped is gone.
C4_EntryGoneWhenUnreferenced ==
    collected =>
        \A c \in DOMAIN skyproj_instances : c \in ExternallyReferenced

\* C5: calls on distinct figures never share an axis, whatever their
\* sub-region and options; every axis a call acquires or draws on belongs
\* to the figure of that call, and every axis filed under a figure belongs
\* to that figure.
C5_KeyedByFigureIdentity ==
    /\ \A i, j \in CallIds :
          (Acquired(i) /\ Acquired(j) /\ calls[i].figure # calls[j].figure)
          => calls[i].axis # calls[j].axis
    /\ \A j \in CallIds :
          Acquired(j) => axes[calls[j].axis].figure = calls[j].figure
    /\ \A k \in 1..Len(trace) :
          trace[k].prim \in OnAxisPrims =>
              axes[trace[k].axis].figure = calls[Len(calls)].figure
    /\ \A c \in DOMAIN skyproj_instances :
          \A s \in DOMAIN skyproj_instances[c] :
              axes[skyproj_instances[c][s]].figure = c
    /\ \A a \in 1..Len(axes) :
          \A c \in DOMAIN skyproj_instances :
              (\E s \in DOMAIN skyproj_instances[c] : skyproj_instances[c][s] = a)
              => c = axes[a].figure

\* Two figures of the same structure were drawn on with the same
\* sub-region and the same projection class, and got two axes.
C5_Witness ==
    \E i, j \in CallIds :
        /\ i < j /\ Acquired(i) /\ Acquired(j)
        /\ calls[i].figure # calls[j].figure
        /\ figures[calls[i].figure] = figures[calls[j].figure]
        /\ calls[i].subplot_in = calls[j].subplot_in
        /\ calls[i].skyproj = calls[j].skyproj
        /\ calls[i].axis # calls[j].axis
        /\ calls[j].created
        /\ ActedOnAxis

\* the position of a method in __call__
MethodRank(by) ==
    CASE by = "_initialize_plot_dict" -> 1
      [] by = "_prepare_skyproj" -> 2
      [] by = "draw" -> 3
      [] by = "decorate" -> 4
      [] by = "__call__" -> 5

\* C6: the latest call resolved the configuration first, then acquired its
\* axis, then ran the variant's draw, then the decorations, then returned:
\* the methods appear in that order in the log, every primitive on an axis
\* comes after the acquisition and is on the acquired axis, no decoration
\* precedes a primitive of draw, and a call that returns returns the figure
\* of its axis, which is the supplied figure when one was supplied.
C6_FixedOrderOfSteps ==
    Len(calls) > 0 =>
        LET c == calls[Len(calls)]
        IN  /\ Len(trace) > 0
            /\ trace[1].prim = "resolve"
            /\ \A k \in 1..(Len(trace) - 1) :
                  MethodRank(trace[k].by) <= MethodRank(trace[k + 1].by)
            /\ \A k \in 1..Len(trace) :
                  trace[k].prim \in OnAxisPrims =>
                      /\ trace[k].by \in {"draw", "decorate"}
                      /\ trace[k].axis = c.axis
                      /\ \E l \in 1..Len(trace) :
                            l < k /\ trace[l].prim \in {"new_axis", "reuse_axis"}
            /\ \A k \in 1..Len(trace) :
                  trace[k].prim \in {"new_axis", "reuse_axis"} => k = 2
            /\ c.exc = "none" =>
                  /\ trace[Len(trace)].prim = "return"
                  /\ trace[Len(trace)].kwargs["figure"] = PyInt(c.figure)
                  /\ axes[c.axis].figure = c.figure
                  /\ c.fig # NoFigure => c.figure = c.fig
                  /\ \E k \in 1..Len(trace) : trace[k].by = "draw"
                  /\ \E k \in 1..Len(trace) : trace[k].by = "decorate"
            /\ c.fig # NoFigure => c.figure = c.fig

\* A call on a supplied figure drew its content and its decorations and
\* returned.
C6_Witness ==
    /\ Len(calls) > 0
    /\ calls[Len(calls)].exc = "none"
    /\ calls[Len(calls)].fig # NoFigure
    /\ \E k, l \in 1..Len(trace) :
          /\ k < l
          /\ trace[k].prim = "draw_polygon" /\ trace[k].by = "draw"
          /\ trace[l].prim = "draw_polygon" /\ trace[l].by = "decorate"

---------------------------------------------------------------------------
(* What the latest call says about the decorations. *)

LastPlotter == calls[Len(calls)].plotter
LastDict == plotters[LastPlotter].plot_dict.data

\* the decoration list of the latest call, as resolved
LastDecorations ==
    IF LastDict["decorations"].tag = "listref" THEN default_decorations
    ELSE LastDict["decorations"].items

Listed(name) == \E i \in 1..Len(LastDecorations) : LastDecorations[i] = name

\* the drawing primitives the decoration pipeline invoked, in order
DecorationDraws ==
    SelectSeq(trace, LAMBDA e : e.by = "decorate" /\ e.prim \in DrawPrims)

\* everything the decoration pipeline did to the axis, in order
DecorationEffects(tr) ==
    SelectSeq(tr, LAMBDA e : e.by = "decorate" /\ e.prim \in OnAxisPrims)

PipelineRank(what) ==
    CASE what = "ecliptic" -> 1
      [] what = "galactic_plane" -> 2
      [] what = "sun" -> 3
      [] what = "moon" -> 4
      [] what = "horizon" -> 5
      [] what = "colorbar" -> 6

\* C7: whatever the order and the repetitions of the names in the resolved
\* decoration list, the decorations drawn by a call come in the order
\* ecliptic, galactic_plane, sun, moon, horizon, colorbar, each at most
\* once, and each is a name of the list.
C7_FixedDecorationOrder ==
    Len(calls) > 0 =>
        /\ \A k, l \in 1..Len(DecorationDraws) :
              k < l => PipelineRank(DecorationDraws[k].what)
                       < PipelineRank(DecorationDraws[l].what)
        /\ \A k \in 1..Len(DecorationDraws) : Listed(DecorationDraws[k].what)

\* A list that names moon twice and horizon before galactic_plane was drawn
\* as galactic_plane, moon, horizon.
C7_Witness ==
    /\ Len(calls) > 0
    /\ LastDecorations = <<"horizon", "moon", "galactic_plane", "moon">>
    /\ Len(DecorationDraws) = 3
    /\ DecorationDraws[1].what = "galactic_plane"
    /\ DecorationDraws[2].what = "moon"
    /\ DecorationDraws[3].what = "horizon"

\* no observatory context: the option is unset or null
LastNoObservatory ==
    \/ "model_observatory" \notin DOMAIN LastDict
    \/ LastDict["model_observatory"] = None

NeedObservatory == {"sun", "moon", "horizon"}

RECURSIVE Without(_, _)
Without(items, names) ==
    IF Len(items) = 0 THEN <<>>
    ELSE IF Head(items) \in names THEN Without(Tail(items), names)
    ELSE <<Head(items)>> \o Without(Tail(items), names)

\* the decoration pipeline of the latest plotter run on its axis with sun,
\* moon and horizon struck from the list
RunWithoutSkipped ==
    decorate([MachineOf(LastPlotter) EXCEPT
                 !.self.plot_dict.data["decorations"] =
                     List(Without(LastDecorations, NeedObservatory))])

\* C8: when the latest call had no observatory context and reached the
\* decorations, each of sun, moon and horizon that the list names produced
\* exactly one warning and no primitive, and the call did to the axis, and
\* raised, exactly what the pipeline does with those names struck from the
\* list.
C8_SkipWithoutObservatory ==
    (Len(calls) > 0 /\ Acquired(Len(calls)) /\ LastNoObservatory) =>
        /\ \A b \in NeedObservatory :
              /\ Listed(b) =>
                    Cardinality({k \in 1..Len(trace) :
                        trace[k].prim = "warn" /\ trace[k].what = b}) = 1
              /\ ~\E k \in 1..Len(trace) :
                    trace[k].prim # "warn" /\ trace[k].what = b
        /\ DecorationEffects(trace) = DecorationEffects(RunWithoutSkipped.trace)
        /\ calls[Len(calls)].exc = RunWithoutSkipped.exc

\* A filled-map call without observatory whose list names sun, ecliptic
\* and colorbar warned about the sun and drew the ecliptic and the colour
\* bar.
C8_Witness ==
    /\ Len(calls) > 0
    /\ LastNoObservatory
    /\ "model_observatory" \in DOMAIN LastDict
    /\ Listed("sun") /\ Listed("ecliptic") /\ Listed("colorbar")
    /\ calls[Len(calls)].exc = "none"
    /\ \E k \in 1..Len(trace) : trace[k].prim = "warn" /\ trace[k].what = "sun"
    /\ Len(DecorationDraws) = 2
    /\ DecorationDraws[1].what = "ecliptic"
    /\ DecorationDraws[2].what = "colorbar"

\* the latest call reached the colour bar of a filled map with an
\* orientation option in its plot dictionary
LastColorbarWithOrientation ==
    /\ Len(calls) > 0
    /\ Acquired(Len(calls))
    /\ plotters[LastPlotter].variant = "hpxmap"
    /\ Listed("colorbar")
    /\ "cbar_orientation" \in DOMAIN LastDict

ColorbarDrawn == \E k \in 1..Len(trace) : trace[k].prim = "draw_colorbar"

VerticalSpellings == {"vertical", "Vertical"}
HorizontalSpellings == {"horizontal", "HORIZONTAL"}

ProbeKeys ==
    {"figsize", "subplot", "skyproj", "skyproj_kwargs", "decorations",
     "model_observatory", "extend", "cbar_format", "cbar_orientation",
     "xlabel", "fontsize", "labelsize", "draw_hpxmap_kwargs",
     "draw_polygon_kwargs", "camera_perimeter_func", "never_set"}

\* the latest call of plotter p, 0 when it was never called
LatestCallOf(p) ==
    IF \E i \in CallIds : calls[i].plotter = p
    THEN CHOOSE i \in CallIds :
            calls[i].plotter = p /\ \A j \in CallIds : calls[j].plotter = p => j <= i
    ELSE 0

\* the keys set in a layer of the plot dictionary of plotter p
SetInSomeLayer(p) ==
    (DOMAIN plotters[p].default_plot_dict)
    \cup (IF LatestCallOf(p) = 0 THEN {}
          ELSE DOMAIN calls[LatestCallOf(p)].user_plot_dict)

\* C10: in the plot dictionary of every plotter, a key set in no layer
\* reads as None, whether or not an earlier read has left it in the
\* dictionary; no call ever ends in KeyError, and the label and the font
\* size the colour bar was given for such keys are None.
C10_UnsetKeyIsNone ==
    /\ \A p \in PlotterIds :
          plotters[p].state # "unconstructed" =>
              \A k \in ProbeKeys \ SetInSomeLayer(p) :
                  GetItem(plotters[p].plot_dict, k) = None
    /\ \A i \in CallIds : calls[i].exc # "KeyError"
    /\ \A k \in 1..Len(trace) :
          trace[k].prim = "set_label" =>
              /\ "xlabel" \notin SetInSomeLayer(LastPlotter)
                    => trace[k].kwargs["label"] = None
              /\ "fontsize" \notin SetInSomeLayer(LastPlotter)
                    => trace[k].kwargs["fontsize"] = None

\* A filled-map call labelled its colour bar with the unset xlabel, which
\* the read left in the dictionary, and a key nothing read is still absent.
C10_Witness ==
    /\ Len(calls) > 0
    /\ calls[Len(calls)].exc = "none"
    /\ "xlabel" \notin SetInSomeLayer(LastPlotter)
    /\ "xlabel" \in DOMAIN LastDict
    /\ "never_set" \notin DOMAIN LastDict
    /\ \E k \in 1..Len(trace) :
          trace[k].prim = "set_label" /\ trace[k].kwargs["label"] = None

---------------------------------------------------------------------------
(* What a later call of a plotter keeps of an earlier one. *)

\* the calls of plotter p before its latest
EarlierCallsOf(p) ==
    {i \in CallIds : calls[i].plotter = p /\ i < LatestCallOf(p)}

\* C11: the plot dictionary of every plotter that was called holds, for
\* each key, the override of the plotter's latest call if that call gave
\* one, else the plotter's default, else None; every override and default
\* is in it, and nothing an earlier call of the plotter set or read
\* survives in it with a value of its own.
C11_RebuiltEachCall ==
    \A p \in PlotterIds :
        LatestCallOf(p) # 0 =>
            LET user == calls[LatestCallOf(p)].user_plot_dict
                default == plotters[p].default_plot_dict
                data == plotters[p].plot_dict.data
            IN  /\ (DOMAIN user) \cup (DOMAIN default) \subseteq DOMAIN data
                /\ \A k \in DOMAIN data :
                      data[k] = IF k \in DOMAIN user THEN user[k]
                                ELSE IF k \in DOMAIN default THEN default[k]
                                ELSE None
                /\ plotters[p].plot_dict.default_factory = "return_none"

\* A plotter was called with an observatory and a decoration list of the
\* caller, then again without either: the second call resolved the default
\* decorations and no observatory.
C11_Witness ==
    \E p \in PlotterIds :
        /\ LatestCallOf(p) # 0
        /\ \E i \in EarlierCallsOf(p) :
              /\ "model_observatory" \in DOMAIN calls[i].user_plot_dict
              /\ "decorations" \in DOMAIN calls[i].user_plot_dict
        /\ "model_observatory" \notin DOMAIN calls[LatestCallOf(p)].user_plot_dict
        /\ "decorations" \notin DOMAIN calls[LatestCallOf(p)].user_plot_dict
        /\ "model_observatory" \notin DOMAIN plotters[p].plot_dict.data
        /\ plotters[p].plot_dict.data["decorations"] = ListRef("default_decorations")
        /\ calls[LatestCallOf(p)].exc = "none"

---------------------------------------------------------------------------
(* What compute_circle_points returns. *)

\* C12 as stated: in the right ascensions returned, consecutive values
\* differ by at most 180 degrees in magnitude, and every value equals the
\* raw value of its point modulo 360.
C12_NoJumpOver180 ==
    circle.called =>
        /\ Len(circle.ra) = Len(circle.raw_ras)
        /\ \A i \in 1..Len(circle.ra) :
              (circle.ra[i] - circle.raw_ras[i]) % 360 = 0
        /\ \A i \in 1..(Len(circle.ra) - 1) :
              /\ circle.ra[i + 1] - circle.ra[i] <= 180
              /\ circle.ra[i] - circle.ra[i + 1] <= 180

\* C13 as stated: the bearings sampled start at start_bear, ascend
\* strictly by step, all lie in [start_bear, end_bear], end at end_bear,
\* and there is one point per bearing.
C13_BearingsWithinRange ==
    circle.called =>
        /\ Len(circle.bearing) >= 1
        /\ Len(circle.ra) = Len(circle.bearing)
        /\ circle.bearing[1] = circle.start_bear
        /\ \A i \in 1..(Len(circle.bearing) - 1) :
              circle.bearing[i + 1] = circle.bearing[i] + circle.step
        /\ \A i \in 1..Len(circle.bearing) :
              circle.bearing[i] >= circle.start_bear
              /\ circle.bearing[i] <= circle.end_bear
        /\ circle.bearing[Len(circle.bearing)] = circle.end_bear

---------------------------------------------------------------------------
(* What the perimeter variant draws. *)

\* what draw invoked in the latest call, in order
LastDraws == SelectSeq(trace, LAMBDA e : e.by = "draw")

\* the latest call is of a perimeter plotter and was given a perimeter
\* function, which returns one outline per visit
PerimeterCallWithFunc ==
    /\ Len(calls) > 0
    /\ plotters[LastPlotter].variant = "perimeter"
    /\ "camera_perimeter_func" \in DOMAIN calls[Len(calls)].user_plot_dict
    /\ calls[Len(calls)].user_plot_dict["camera_perimeter_func"].tag = "function"
    /\ calls[Len(calls)].axis # NoAxis

\* the polygon styling the caller gave in the latest call
LastPolygonStyle ==
    IF "draw_polygon_kwargs" \in DOMAIN calls[Len(calls)].user_plot_dict
    THEN calls[Len(calls)].user_plot_dict["draw_polygon_kwargs"].d
    ELSE EmptyDict

\* C14: a call of a perimeter plotter with N visits and a perimeter
\* function makes draw invoke draw_polygon exactly N times and nothing
\* else, for visit 1 to N in that order, on the axis of the call, each
\* with edgecolor black and linewidth 0.2 except where the caller's
\* styling gives the key, and with every key of the caller's styling.
C14_OnePolygonPerVisit ==
    PerimeterCallWithFunc =>
        LET draws == LastDraws
            style == LastPolygonStyle
        IN  /\ calls[Len(calls)].exc = "none"
            /\ Len(draws) = calls[Len(calls)].metric_values
            /\ \A i \in 1..Len(draws) :
                  /\ draws[i].prim = "draw_polygon"
                  /\ draws[i].idx = i
                  /\ draws[i].axis = calls[Len(calls)].axis
                  /\ DOMAIN draws[i].kwargs =
                        {"edgecolor", "linewidth"} \cup DOMAIN style
                  /\ \A k \in DOMAIN style : draws[i].kwargs[k] = style[k]
                  /\ "edgecolor" \notin DOMAIN style
                        => draws[i].kwargs["edgecolor"] = Str("black")
                  /\ "linewidth" \notin DOMAIN style
                        => draws[i].kwargs["linewidth"] = PyFloat("0.2")

\* Two visits were drawn with the caller's edge colour and the default
\* line width.
C14_Witness ==
    /\ PerimeterCallWithFunc
    /\ calls[Len(calls)].metric_values = 2
    /\ Len(LastDraws) = 2
    /\ LastDraws[2].idx = 2
    /\ LastDraws[2].kwargs["edgecolor"] = Str("red")
    /\ LastDraws[2].kwargs["linewidth"] = PyFloat("0.2")

---------------------------------------------------------------------------
(* What a repeated render adds to an axis. *)

DecorationNames ==
    {"ecliptic", "galactic_plane", "sun", "moon", "horizon", "colorbar"}

\* the calls that ran to the end on axis a
RendersOn(a) == {i \in CallIds : calls[i].axis = a /\ calls[i].exc = "none"}

\* how many copies of decoration name the axis a carries
Copies(a, name) ==
    Cardinality({k \in 1..Len(overlays[a]) : overlays[a][k] = name})

\* C15 as stated: an axis that was only ever rendered on by one plotter
\* with one and the same plot dictionary, once or several times, carries
\* at most one copy of each decoration: a second run of the pipeline adds
\* nothing to what the first has drawn.
C15_SecondRunAddsNothing ==
    \A a \in DOMAIN overlays :
        (\A i, j \in RendersOn(a) :
            /\ calls[i].plotter = calls[j].plotter
            /\ calls[i].user_plot_dict = calls[j].user_plot_dict)
        => \A name \in DecorationNames : Copies(a, name) <= 1

---------------------------------------------------------------------------
(* What the constructors do to the default decorations. *)

\* the list the "decorations" default of plotter p denotes
DefaultDecorationsOf(p) ==
    IF plotters[p].default_plot_dict["decorations"].tag = "listref"
    THEN default_decorations
    ELSE plotters[p].default_plot_dict["decorations"].items

\* C16 as stated: whatever plotters have been constructed, the class-wide
\* default decoration list is [ecliptic, galactic_plane], so is the
\* default list of every perimeter plotter, and the default list of every
\* filled-map plotter holds colorbar exactly once.
C16_ColorbarOnlyInOwnDefaults ==
    /\ default_decorations = <<"ecliptic", "galactic_plane">>
    /\ \A p \in PlotterIds :
          /\ plotters[p].variant = "perimeter"
                => DefaultDecorationsOf(p) = <<"ecliptic", "galactic_plane">>
          /\ plotters[p].variant = "hpxmap"
                => Cardinality({i \in 1..Len(DefaultDecorationsOf(p)) :
                                  DefaultDecorationsOf(p)[i] = "colorbar"}) = 1

---------------------------------------------------------------------------
(* What a call that fails on the class of the cached axis leaves behind. *)

\* C17: a call that ends in the assertion error of line 152 has invoked no
\* primitive on any axis, has acquired and made no axis, and leaves the
\* registry, the axes and what they carry exactly as they were before it.
C17_MismatchDrawsNothing ==
    [][(/\ Len(calls') = Len(calls) + 1
        /\ calls'[Len(calls')].exc = "AssertionError")
       => /\ skyproj_instances' = skyproj_instances
          /\ axes' = axes
          /\ overlays' = overlays
          /\ calls'[Len(calls')].axis = NoAxis
          /\ \A k \in 1..Len(trace') : trace'[k].prim \notin OnAxisPrims]_vars

\* The latest call failed on the class of an axis that an earlier call had
\* made and drawn on; the axis is still filed under its figure and
\* sub-region.
C17_Witness ==
    /\ Len(calls) > 1
    /\ calls[Len(calls)].exc = "AssertionError"
    /\ \E a \in CachedBefore(Len(calls)) :
          /\ Len(overlays[a]) > 0
          /\ calls[Len(calls)].skyproj.name # axes[a].cls
          /\ skyproj_instances[calls[Len(calls)].figure][TargetKey(Len(calls))] = a
    /\ ~ActedOnAxis

---------------------------------------------------------------------------
(* What an option that is None does. *)

\* option k of the latest call resolves to None: the caller left it out
\* or gave None
LastResolvesToNone(k) ==
    \/ k \notin DOMAIN calls[Len(calls)].user_plot_dict
    \/ calls[Len(calls)].user_plot_dict[k] = None

\* C18 as stated: in a call of a filled-map plotter with colorbar among
\* the decorations, a cbar_orientation that resolves to None, left out or
\* given as None alike, raises nothing and the colour bar is drawn with
\* the default horizontal preset; a model_observatory that resolves to
\* None makes sun, moon and horizon warn and draw nothing.
C18_NoneSameAsMissing ==
    (Len(calls) > 0 /\ calls[Len(calls)].axis # NoAxis) =>
        /\ (/\ plotters[LastPlotter].variant = "hpxmap"
            /\ Listed("colorbar")
            /\ LastResolvesToNone("cbar_orientation"))
           => /\ calls[Len(calls)].exc = "none"
              /\ \E k \in 1..Len(trace) :
                    /\ trace[k].prim = "draw_colorbar"
                    /\ trace[k].kwargs["orientation"] = Str("horizontal")
                    /\ trace[k].kwargs["location"] = Str("bottom")
        /\ LastResolvesToNone("model_observatory")
           => \A k \in 1..Len(trace) :
                 trace[k].what \in {"sun", "moon", "horizon"}
                 => trace[k].prim = "warn"

====
